---- MODULE Spec2Model ----
(***************************************************************************)
(* SQLMap AI Optimizer Pro (sqlmap_ai_pro.py): the pattern catalog         *)
(* (error_db), the output classifier (the generator realtime_analysis),    *)
(* the learning step (machine_learn), the report writer (generate_report)  *)
(* and the control loop (run) that drives them over the output of the      *)
(* sqlmap child process.                                                   *)
(*                                                                         *)
(* A step of the model runs the single control thread from one blocking    *)
(* point or generator yield to the next: the readline of line 116, the     *)
(* yield of line 137 and the input of line 185.  The child process and the *)
(* operator are the environment.                                           *)
(***************************************************************************)
EXTENDS Naturals, Integers, Sequences, FiniteSets, TLC

VARIABLES
    error_db,              \* self.error_db: the dict, as its entries in insertion order
    proxy_list,            \* self.proxy_list
    pc,                    \* where the control thread of run() stands
    exc,                   \* the exception that ended run(), "none" while none has
    cmd,                   \* the local cmd of run(): the live command argument list
    child,                 \* the sqlmap process: "none", "running", "closing", "exited"
    child_signals,         \* the signals run() has sent to the child process
    stdout,                \* lines written by the child and not yet read
    produced,              \* how many lines the child has written
    line,                  \* the local line of realtime_analysis
    it,                    \* the dict iterator and list index of lines 123-124
    line_mark,             \* length of optimization_history when line was read
    optimization_history,  \* the local optimization_history of realtime_analysis
    report,                \* what generate_report wrote, one element per call
    learn_calls,           \* the arguments machine_learn was called with, in order
    choice,                \* the local choice of run(): the last answer typed
    handled                \* how many suggestions the loop body of run() is done with

vars == <<error_db, proxy_list, pc, exc, cmd, child, child_signals, stdout,
          produced, line, it, line_mark, optimization_history, report, learn_calls,
          choice, handled>>

----------------------------------------------------------------------------
(* Bounds of the model. *)

\* lines the child process writes in one run
MaxLines == 2
\* direct calls of machine_learn in the specification of the catalog alone
MaxLearnCalls == 3

----------------------------------------------------------------------------
(* The catalog of load_error_patterns. *)

T500a == "500 \\(Internal Server Error\\)"
T500b == "SQL syntax error"
Tcf1 == "Cloudflare"
Tcf2 == "403 Forbidden.*Ray ID"

Solutions500 ==
    [tampers |-> <<"between", "space2comment", "space2mysqlblank">>,
     params |-> <<"--level=3", "--risk=2">>]

SolutionsCloudflare ==
    [tampers |-> <<"randomcase", "space2plus">>,
     params |-> <<"--delay=7", "--proxy={proxy}">>,
     advanced |-> <<"--flush-session", "--timeout=20">>]

SolutionsCustom ==
    [tampers |-> <<"generic">>, params |-> <<"--level=2">>]

load_error_patterns ==
    << [id |-> "500", triggers |-> <<T500a, T500b>>,
        solutions |-> Solutions500, learned |-> FALSE],
       [id |-> "cloudflare", triggers |-> <<Tcf1, Tcf2>>,
        solutions |-> SolutionsCloudflare, learned |-> TRUE] >>

\* load_proxies: the stripped non-blank lines of proxy_list.txt (none when the
\* file holds only blank lines), or the default when the file is missing.
DefaultProxies == <<"http://127.0.0.1:8080">>
FileProxies == <<"http://10.0.0.1:3128", "http://10.0.0.2:3128">>
load_proxies == {DefaultProxies, FileProxies, <<>>}

----------------------------------------------------------------------------
(* Output lines of the child process and re.search(pattern, line,          *)
(* re.IGNORECASE) on them: Hits(l) is the set of the patterns that find a  *)
(* match in l.  EmptyRead is the '' that readline returns at end of file.  *)

LineInfo == "INFO: testing connection..."
Line500 == "500 (Internal Server Error): SQL syntax error near ..."
LineCf == "server: cloudflare"
LineCfRay == "403 Forbidden ... Ray ID: abc123 ... Cloudflare"
LineMixed == "403 Forbidden (Ray ID: 7): SQL syntax error"
EmptyRead == ""

Lines == {LineInfo, Line500, LineCf, LineCfRay, LineMixed}

Hits(l) ==
    CASE l = Line500 -> {T500a, T500b}
      [] l = LineCf -> {Tcf1}
      [] l = LineCfRay -> {Tcf1, Tcf2}
      [] l = LineMixed -> {T500b, Tcf2}
      [] OTHER -> {}

\* a search that finds every pattern in every line
re_search_always(pattern, l) == TRUE

re_search(pattern, l) == pattern \in Hits(l)

----------------------------------------------------------------------------
(* machine_learn: self.error_db['custom'] = {...}.  Assigning to a key the *)
(* dict holds replaces its value in place; a new key goes to the end.      *)

CustomEntry(pattern) ==
    [id |-> "custom", triggers |-> <<pattern>>,
     solutions |-> SolutionsCustom, learned |-> TRUE]

IndexOf(db, id) ==
    IF \E k \in 1..Len(db) : db[k].id = id
    THEN CHOOSE k \in 1..Len(db) : db[k].id = id
    ELSE 0

\* a learning step that also marks the classes holding the pattern as learned
machine_learn_marking(db, pattern) ==
    LET marked == [k \in 1..Len(db) |->
                      IF \E t \in 1..Len(db[k].triggers) : db[k].triggers[t] = pattern
                      THEN [db[k] EXCEPT !.learned = TRUE]
                      ELSE db[k]]
    IN  IF IndexOf(db, "custom") = 0
        THEN Append(marked, CustomEntry(pattern))
        ELSE [marked EXCEPT ![IndexOf(db, "custom")] = CustomEntry(pattern)]

machine_learn(db, pattern) ==
    IF IndexOf(db, "custom") = 0
    THEN Append(db, CustomEntry(pattern))
    ELSE [db EXCEPT ![IndexOf(db, "custom")] = CustomEntry(pattern)]

----------------------------------------------------------------------------
(* The nested loops of lines 123-125, from the position (i, j) of the dict *)
(* iterator and the trigger list to the next trigger that matches.  The    *)
(* dict iterator raises RuntimeError when asked for its next item after    *)
(* the dict changed size (used is the size when the loop began).           *)

InnerLen(db, i) == IF i = 0 THEN 0 ELSE Len(db[i].triggers)

RECURSIVE NextMatch(_, _, _, _, _)
NextMatch(db, l, i, j, used) ==
    IF j <= InnerLen(db, i)
    THEN IF re_search(db[i].triggers[j], l)
         THEN [kind |-> "match", i |-> i, j |-> j]
         ELSE NextMatch(db, l, i, j + 1, used)
    ELSE IF Len(db) # used
         THEN [kind |-> "error", i |-> i, j |-> j]
         ELSE IF i + 1 > Len(db)
              THEN [kind |-> "done", i |-> i, j |-> j]
              ELSE NextMatch(db, l, i + 1, 1, used)

NoIter == [i |-> 0, j |-> 1, used |-> 0]

\* datetime.now(): a reading of the local wall clock, which the host may set
\* back; an earlier and a later reading order any two timestamps
Timestamps == {0, 1}

\* a classifier that learns from every match
ShouldLearnAlways(data) == TRUE

\* line 126: learn from a match of a class that is not learned
ShouldLearn(data) == ~data.learned

\* Lines 123-137 from the position (i, j): up to the next yield, to the end
\* of the for loops (back at the readline) or to the RuntimeError, which
\* leaves the generator and is caught at line 200.
Advance(l, i, j, used) ==
    LET r == NextMatch(error_db, l, i, j, used) IN
    CASE r.kind = "match" ->
            LET data == error_db[r.i]
                pattern == data.triggers[r.j]
            IN  /\ IF ShouldLearn(data)
                   THEN /\ error_db' = machine_learn(error_db, pattern)
                        /\ learn_calls' = Append(learn_calls, pattern)
                   ELSE UNCHANGED <<error_db, learn_calls>>
                /\ \E ts \in Timestamps :
                      optimization_history' =
                          Append(optimization_history,
                                 [type |-> data.id, timestamp |-> ts,
                                  solution |-> data.solutions])
                /\ it' = [i |-> r.i, j |-> r.j + 1, used |-> used]
                /\ pc' = "Yielded"
                /\ exc' = exc
      [] r.kind = "done" ->
            /\ pc' = "Reading"
            /\ it' = NoIter
            /\ UNCHANGED <<error_db, learn_calls, optimization_history, exc>>
      [] r.kind = "error" ->
            /\ pc' = "Failed"
            /\ exc' = "RuntimeError"
            /\ it' = NoIter
            /\ UNCHANGED <<error_db, learn_calls, optimization_history>>

----------------------------------------------------------------------------
(* generate_report: the header, then one paragraph per optimization with   *)
(* its type in bold and its solution as JSON.                              *)

ReportHeader == "<h1>SQLMap AI Optimizer Report</h1>"

Paragraph(opt) == [b |-> opt.type, json |-> opt.solution]

\* a report writer that stops one optimization short
generate_report_short(optimizations) ==
    <<ReportHeader>> \o
    [k \in 1..(Len(optimizations) - 1) |-> Paragraph(optimizations[k])]

generate_report(optimizations) ==
    <<ReportHeader>> \o
    [k \in 1..Len(optimizations) |-> Paragraph(optimizations[k])]

----------------------------------------------------------------------------
(* adaptive_scan: the base command, extended when wafw00f names cloudflare *)

Url == "http://target/?id=1"

base_cmd ==
    <<"sqlmap", "-u", Url, "--batch", "--output-dir", "./logs/session",
      "--csv", "--dump-format=JSON">>

WafPreset(proxy) ==
    <<"--tamper", "randomcase,space2plus", "--delay", "5", "--proxy", proxy>>

Range(s) == {s[k] : k \in 1..Len(s)}

----------------------------------------------------------------------------
\* choice before the first input() of line 185
NoChoice == "<unbound>"

Init ==
    /\ error_db = load_error_patterns
    /\ proxy_list \in load_proxies
    /\ pc = "Idle"
    /\ exc = "none"
    /\ cmd = <<>>
    /\ child = "none"
    /\ child_signals = <<>>
    /\ stdout = <<>>
    /\ produced = 0
    /\ line = EmptyRead
    /\ it = NoIter
    /\ line_mark = 0
    /\ optimization_history = <<>>
    /\ report = <<>>
    /\ learn_calls = <<>>
    /\ choice = NoChoice
    /\ handled = 0

\* run, lines 168-176: adaptive_scan builds the command and Popen starts
\* sqlmap.  waf: the output of wafw00f names cloudflare (line 102).
AdaptiveScan(waf, proxy) ==
    IF waf THEN base_cmd \o WafPreset(proxy) ELSE base_cmd

ScanProxies(waf) == IF waf THEN Range(proxy_list) ELSE {"-"}

Start ==
    /\ pc = "Idle"
    /\ \E waf \in BOOLEAN : \E proxy \in ScanProxies(waf) :
          cmd' = AdaptiveScan(waf, proxy)
    /\ child' = "running"
    /\ pc' = "Reading"
    /\ UNCHANGED <<error_db, proxy_list, exc, child_signals, stdout, produced,
                   line, it, line_mark, optimization_history, report, learn_calls,
                   choice, handled>>

\* random.choice of line 106 raises IndexError on an empty proxy list; the
\* exception is caught at line 200 before any process was started.
ScanFail ==
    /\ pc = "Idle"
    /\ proxy_list = <<>>
    /\ pc' = "Failed"
    /\ exc' = "IndexError"
    /\ UNCHANGED <<error_db, proxy_list, cmd, child, child_signals, stdout,
                   produced, line, it, line_mark, optimization_history, report,
                   learn_calls,
                   choice, handled>>

\* Popen raises (sqlmap not found, permission denied): caught at line 200
LaunchFail ==
    /\ pc = "Idle"
    /\ \E waf \in BOOLEAN : \E proxy \in ScanProxies(waf) :
          cmd' = AdaptiveScan(waf, proxy)
    /\ pc' = "Failed"
    /\ exc' = "OSError"
    /\ UNCHANGED <<error_db, proxy_list, child, child_signals, stdout, produced,
                   line, it, line_mark, optimization_history, report, learn_calls,
                   choice, handled>>

----------------------------------------------------------------------------
(* The child process, for as long as run() is with it: it writes lines,     *)
(* closes its output and exits.                                            *)

InRun == pc \in {"Reading", "Yielded", "Suspended"}

ChildEmit ==
    /\ InRun
    /\ child = "running"
    /\ produced < MaxLines
    /\ \E l \in Lines : stdout' = Append(stdout, l)
    /\ produced' = produced + 1
    /\ UNCHANGED <<error_db, proxy_list, pc, exc, cmd, child, child_signals,
                   line, it, line_mark, optimization_history, report, learn_calls,
                   choice, handled>>

\* the output of the child is closed while it exits, before it can be reaped
ChildClose ==
    /\ InRun
    /\ child = "running"
    /\ child' = "closing"
    /\ UNCHANGED <<error_db, proxy_list, pc, exc, cmd, child_signals, stdout,
                   produced, line, it, line_mark, optimization_history, report,
                   learn_calls,
                   choice, handled>>

ChildExit ==
    /\ InRun
    /\ child = "closing"
    /\ child' = "exited"
    /\ UNCHANGED <<error_db, proxy_list, pc, exc, cmd, child_signals, stdout,
                   produced, line, it, line_mark, optimization_history, report,
                   learn_calls,
                   choice, handled>>

----------------------------------------------------------------------------
(* realtime_analysis and the loop of run that drives it. *)

\* a reader that takes the next line whatever run() is doing
ReadLineAnytime ==
    /\ InRun
    /\ stdout # <<>>
    /\ line' = Head(stdout)
    /\ stdout' = Tail(stdout)
    /\ line_mark' = Len(optimization_history)
    /\ Advance(Head(stdout), 0, 1, Len(error_db))
    /\ UNCHANGED <<proxy_list, cmd, child, child_signals, produced, report,
                   choice, handled>>

\* lines 116-137: readline returns a line; it is echoed and scanned
ReadLine ==
    /\ pc = "Reading"
    /\ stdout # <<>>
    /\ line' = Head(stdout)
    /\ stdout' = Tail(stdout)
    /\ line_mark' = Len(optimization_history)
    /\ Advance(Head(stdout), 0, 1, Len(error_db))
    /\ UNCHANGED <<proxy_list, cmd, child, child_signals, produced, report,
                   choice, handled>>

\* lines 116-118: readline returns '' at end of file while poll() is still
\* None; the empty line is echoed and scanned like any other
ReadEmpty ==
    /\ pc = "Reading"
    /\ stdout = <<>>
    /\ child = "closing"
    /\ line' = EmptyRead
    /\ line_mark' = Len(optimization_history)
    /\ Advance(EmptyRead, 0, 1, Len(error_db))
    /\ UNCHANGED <<proxy_list, cmd, child, child_signals, stdout, produced, report,
                   choice, handled>>

\* lines 117-118, 140, 196: readline returns '' and the child has exited; the
\* loop breaks, the report is written and run prints its last message
EndOfStream ==
    /\ pc = "Reading"
    /\ stdout = <<>>
    /\ child = "exited"
    /\ report' = Append(report, generate_report(optimization_history))
    /\ pc' = "Completed"
    /\ UNCHANGED <<error_db, proxy_list, exc, cmd, child, child_signals, stdout,
                   produced, line, it, line_mark, optimization_history, learn_calls,
                   choice, handled>>

\* the optimization the generator yielded last
optimization == optimization_history[Len(optimization_history)]

\* lines 180-184 and 179: a suggestion of another class than cloudflare is
\* printed and the generator is resumed
HandleSuggestion ==
    /\ pc = "Yielded"
    /\ optimization.type # "cloudflare"
    /\ handled' = handled + 1
    /\ Advance(line, it.i, it.j, it.used)
    /\ UNCHANGED <<proxy_list, cmd, child, child_signals, stdout, produced, line,
                   line_mark, report, choice>>

\* a loop body that asks for confirmation of every suggestion
PromptAny ==
    /\ pc = "Yielded"
    /\ pc' = "Suspended"
    /\ UNCHANGED <<error_db, proxy_list, exc, cmd, child, child_signals, stdout,
                   produced, line, it, line_mark, optimization_history, report,
                   learn_calls, choice, handled>>

\* lines 180-185: a cloudflare suggestion is printed and input() waits
Prompt ==
    /\ pc = "Yielded"
    /\ optimization.type = "cloudflare"
    /\ pc' = "Suspended"
    /\ UNCHANGED <<error_db, proxy_list, exc, cmd, child, child_signals, stdout,
                   produced, line, it, line_mark, optimization_history, report,
                   learn_calls,
                   choice, handled>>

\* what the operator may type; str.lower() of it
Choices == {"", "n", "N", "no"}

\* an answer compared as typed
lower_as_typed(c) == c

lower(c) ==
    CASE c = "Y" -> "y"
      [] c = "N" -> "n"
      [] OTHER -> c

new_params(proxy) ==
    <<"--tamper=randomcase,space2plus", "--delay=7", "--proxy=" \o proxy>>

\* lines 185-193 and 179, answer n: nothing is added, the generator is resumed
AnswerNo ==
    /\ pc = "Suspended"
    /\ \E c \in Choices : lower(c) = "n" /\ choice' = c
    /\ handled' = handled + 1
    /\ Advance(line, it.i, it.j, it.used)
    /\ UNCHANGED <<proxy_list, cmd, child, child_signals, stdout, produced, line,
                   line_mark, report>>

\* lines 185-193 and 179, any other answer: the command is extended
AnswerYes ==
    /\ pc = "Suspended"
    /\ \E c \in Choices : lower(c) # "n" /\ choice' = c
    /\ handled' = handled + 1
    /\ \E proxy \in Range(proxy_list) : cmd' = cmd \o new_params(proxy)
    /\ Advance(line, it.i, it.j, it.used)
    /\ UNCHANGED <<proxy_list, child, child_signals, stdout, produced, line,
                   line_mark, report>>

\* line 190: random.choice raises IndexError on an empty proxy list
AnswerFail ==
    /\ pc = "Suspended"
    /\ \E c \in Choices : lower(c) # "n" /\ choice' = c
    /\ proxy_list = <<>>
    /\ pc' = "Failed"
    /\ exc' = "IndexError"
    /\ UNCHANGED <<error_db, proxy_list, cmd, child, child_signals, stdout,
                   produced, line, it, line_mark, optimization_history, report,
                   learn_calls, handled>>

\* lines 198-199: the operator interrupts run while it reads, handles a
\* suggestion or waits for an answer
Interrupt ==
    /\ InRun
    /\ pc' = "Interrupted"
    /\ exc' = "KeyboardInterrupt"
    /\ UNCHANGED <<error_db, proxy_list, cmd, child, child_signals, stdout,
                   produced, line, it, line_mark, optimization_history, report,
                   learn_calls,
                   choice, handled>>

Next ==
    \/ Start
    \/ ScanFail
    \/ LaunchFail
    \/ ChildEmit
    \/ ChildClose
    \/ ChildExit
    \/ ReadLine
    \/ ReadEmpty
    \/ EndOfStream
    \/ HandleSuggestion
    \/ Prompt
    \/ AnswerNo
    \/ AnswerYes
    \/ AnswerFail
    \/ Interrupt

Spec == Init /\ [][Next]_vars

----------------------------------------------------------------------------
(* The catalog alone: machine_learn called directly on a fresh optimizer. *)

Patterns == {T500a, T500b, Tcf1, "weird-signature-xyz", "another-signature"}

LearnCall ==
    /\ pc = "Idle"
    /\ Len(learn_calls) < MaxLearnCalls
    /\ \E pattern \in Patterns :
          /\ error_db' = machine_learn(error_db, pattern)
          /\ learn_calls' = Append(learn_calls, pattern)
    /\ UNCHANGED <<proxy_list, pc, exc, cmd, child, child_signals, stdout,
                   produced, line, it, line_mark, optimization_history, report,
                   choice, handled>>

NextLearn == LearnCall

SpecLearn == Init /\ [][NextLearn]_vars

----------------------------------------------------------------------------
(* A run the operator does not interrupt, in which the control thread goes *)
(* on whenever it can, the child process finishes its output and exits,    *)
(* and every prompt is answered.                                           *)

NextLive ==
    \/ Start
    \/ ScanFail
    \/ LaunchFail
    \/ ChildEmit
    \/ ChildClose
    \/ ChildExit
    \/ ReadLine
    \/ ReadEmpty
    \/ EndOfStream
    \/ HandleSuggestion
    \/ Prompt
    \/ AnswerNo
    \/ AnswerYes
    \/ AnswerFail

SpecLive == Init /\ [][NextLive]_vars /\ WF_vars(NextLive)

----------------------------------------------------------------------------
(* Properties of the run. *)

Terminal == {"Completed", "Interrupted", "Failed"}

TriggerSet(entry) == Range(entry.triggers)

\* the classes of db with a trigger that matches l
MatchingClasses(db, l) ==
    {k \in 1..Len(db) : TriggerSet(db[k]) \cap Hits(l) # {}}

\* the suggestions produced from the line that was read last
LineSuggestions ==
    SubSeq(optimization_history, line_mark + 1, Len(optimization_history))

\* C1: once a process was started, run() in a terminal state (completed,
\* interrupted or failed) has called generate_report exactly once, with the
\* suggestion history collected so far.
C1_FlushOnceAtTerminal ==
    (pc \in Terminal /\ child # "none") =>
        /\ Len(report) = 1
        /\ report[1] = generate_report(optimization_history)

\* C2: classifying a line never raises: run() never ends with the
\* RuntimeError of the scan of lines 123-137.
C2_ClassificationNeverRaises ==
    ~(pc = "Failed" /\ exc = "RuntimeError")

\* C3: the suggestions of one line hold at most one suggestion per class, each
\* is of a class with a trigger matching the line, they follow the order of
\* the catalog, and when the line is done every matching class has one.
C3_OneSuggestionPerClass ==
    LET seg == LineSuggestions IN
    /\ \A a, b \in 1..Len(seg) :
          a < b => IndexOf(error_db, seg[a].type) < IndexOf(error_db, seg[b].type)
    /\ \A a \in 1..Len(seg) :
          IndexOf(error_db, seg[a].type) \in MatchingClasses(error_db, line)
    /\ pc = "Reading" =>
          \A k \in MatchingClasses(error_db, line) :
              \E a \in 1..Len(seg) : seg[a].type = error_db[k].id

\* C4: when the operator interrupts run() while the child process is still
\* running, run() has asked the child to terminate.
C4_InterruptTerminatesChild ==
    (pc = "Interrupted" /\ child \in {"running", "closing"}) =>
        child_signals # <<>>

\* C5: no trigger pattern occurs in more than one class of the catalog.
C5_NoTriggerInTwoClasses ==
    \A a, b \in 1..Len(error_db) :
        a # b => TriggerSet(error_db[a]) \cap TriggerSet(error_db[b]) = {}

\* C6: the catalog is monotonic: in every step the identifiers stay unique
\* and every class is still there with at least the triggers it had.
C6_CatalogMonotonic ==
    [][ /\ \A a, b \in 1..Len(error_db') :
              a # b => error_db'[a].id # error_db'[b].id
        /\ \A k \in 1..Len(error_db) :
              \E m \in 1..Len(error_db') :
                  /\ error_db'[m].id = error_db[k].id
                  /\ TriggerSet(error_db[k]) \subseteq TriggerSet(error_db'[m]) ]_vars

\* C7: a call of learn with a pattern it was called with before leaves the
\* catalog unchanged with at most one class holding that pattern, and the
\* catalog has grown by at most one class per distinct pattern learned.
C7_LearnIdempotent ==
    /\ [](Len(error_db) - Len(load_error_patterns)
              <= Cardinality(Range(learn_calls)))
    /\ [][ \A p \in Range(learn_calls) :
              learn_calls' = Append(learn_calls, p) =>
                  /\ error_db' = error_db
                  /\ Cardinality({k \in 1..Len(error_db') :
                                     p \in TriggerSet(error_db'[k])}) <= 1 ]_vars

\* a line was read of which no trigger of the catalog finds a match
UnmatchedRead ==
    /\ pc = "Reading"
    /\ \/ /\ stdout # <<>>
          /\ stdout' = Tail(stdout)
          /\ MatchingClasses(error_db, Head(stdout)) = {}
       \/ /\ stdout = <<>>
          /\ child = "closing"
          /\ child' = child
          /\ exc' # "KeyboardInterrupt"
          /\ MatchingClasses(error_db, EmptyRead) = {}

\* C8: reading a line that matches no trigger of the catalog yields no
\* suggestion and leaves the catalog, the suggestion history and the command
\* argument list unchanged; run() goes on to the next readline.
C8_UnmatchedLineChangesNothing ==
    [][ UnmatchedRead =>
            /\ pc' = "Reading"
            /\ UNCHANGED <<error_db, optimization_history, cmd, learn_calls>> ]_vars

C8_Witness ==
    /\ pc = "Reading"
    /\ line = LineInfo
    /\ optimization_history # <<>>
    /\ Len(cmd) > Len(base_cmd)

\* C9: when the process cannot be launched, run() fails, no line was read or
\* classified, and generate_report was called with the empty history.
C9_LaunchFailureFlushes ==
    (pc = "Failed" /\ exc = "OSError") =>
        /\ child = "none"
        /\ optimization_history = <<>>
        /\ line_mark = 0
        /\ report = <<generate_report(<<>>)>>

\* C10: a written report holds, after its header, one paragraph per suggestion
\* of the history, in the order of the history, with the class id and the
\* remedy of that suggestion; a run that completes with an empty history has
\* written a report with no paragraph.
C10_ReportListsHistory ==
    /\ \A n \in 1..Len(report) :
          /\ Len(report[n]) = 1 + Len(optimization_history)
          /\ report[n][1] = ReportHeader
          /\ \A k \in 1..Len(optimization_history) :
                /\ report[n][k + 1].b = optimization_history[k].type
                /\ report[n][k + 1].json = optimization_history[k].solution
    /\ pc = "Completed" => Len(report) = 1

C10_Witness ==
    /\ pc = "Completed"
    /\ report # <<>>
    /\ Len(optimization_history) >= 2

\* C11: run() waits for a confirmation only with a cloudflare suggestion at
\* hand, and it does so for every cloudflare suggestion it handles; with a
\* suggestion of another class at hand no step prompts, reads an answer or
\* changes the command argument list.
C11_PromptOnlyForCloudflare ==
    /\ [](pc = "Suspended" => optimization.type = "cloudflare")
    /\ [][ /\ (pc = "Yielded" /\ optimization.type # "cloudflare") =>
                /\ pc' # "Suspended"
                /\ cmd' = cmd
                /\ choice' = choice
           /\ (pc = "Yielded" /\ optimization.type = "cloudflare" /\ pc' # pc) =>
                pc' \in {"Suspended", "Interrupted"} ]_vars

C11_Witness ==
    /\ pc = "Suspended"
    /\ handled >= 1

\* the step in which run() takes the operator's answer to a prompt
AnswerStep ==
    /\ pc = "Suspended"
    /\ pc' \notin {"Suspended", "Interrupted"}

\* C12: the answer to a prompt is taken as negative (nothing is added to the
\* command) exactly when it is "n" or "N"; every other answer, the empty line
\* included, is taken as affirmative (line 190 is run: the arguments are
\* added, or choosing the proxy raises).
C12_NegativeOnlyOnN ==
    [][ AnswerStep =>
            /\ choice' \in Choices
            /\ IF choice' \in {"n", "N"}
               THEN cmd' = cmd /\ handled' = handled + 1
               ELSE \/ Len(cmd') = Len(cmd) + 3 /\ handled' = handled + 1
                    \/ pc' = "Failed" /\ exc' = "IndexError" ]_vars

C12_Witness ==
    /\ choice = ""
    /\ handled >= 1
    /\ Len(cmd) >= Len(base_cmd) + 3

\* C13: an affirmative answer appends to the command argument list exactly the
\* tamper, delay and proxy arguments, the proxy taken from the proxy list,
\* and keeps the arguments before them; a negative answer leaves the list
\* unchanged.
C13_AffirmativeExtendsCommand ==
    [][ AnswerStep =>
            IF choice' \in {"n", "N"}
            THEN cmd' = cmd
            ELSE \E proxy \in Range(proxy_list) :
                    cmd' = cmd \o new_params(proxy) ]_vars

\* a command-line fragment with a placeholder left in it
Unresolved(fragment) == fragment = "--proxy={proxy}"

\* C14: no suggestion of the history carries a remedy with an unsubstituted
\* placeholder.
C14_NoPlaceholderInSuggestions ==
    \A k \in 1..Len(optimization_history) :
        \A fragment \in Range(optimization_history[k].solution.params) :
            ~Unresolved(fragment)

\* the suggestion a step has appended to the history
Appended == optimization_history'[Len(optimization_history')]

\* C15: machine_learn is called only for a match of a class whose learned
\* flag is false, with the trigger that matched; a suggestion of a class whose
\* learned flag is true is produced without a call of machine_learn and
\* without a change of the catalog.
C15_LearnOnlyForUnlearned ==
    [][ /\ Len(optimization_history') = Len(optimization_history) + 1 =>
              LET data == error_db[IndexOf(error_db, Appended.type)] IN
              IF data.learned
              THEN error_db' = error_db /\ learn_calls' = learn_calls
              ELSE /\ Len(learn_calls') = Len(learn_calls) + 1
                   /\ learn_calls'[Len(learn_calls')]
                          \in TriggerSet(data) \cap Hits(line')
        /\ learn_calls' # learn_calls =>
              Len(optimization_history') = Len(optimization_history) + 1 ]_vars

C15_Witness ==
    /\ line = LineCfRay
    /\ Len(LineSuggestions) = 2
    /\ error_db = load_error_patterns
    /\ learn_calls = <<>>

\* C16: the suggestion history is append-only (a step keeps every entry as it
\* is and where it is) and its timestamps never decrease from one entry to
\* a later one.
C16_HistoryAppendOnlyOrdered ==
    /\ [](\A a, b \in 1..Len(optimization_history) :
              a < b => optimization_history[a].timestamp
                           <= optimization_history[b].timestamp)
    /\ [][ /\ Len(optimization_history') >= Len(optimization_history)
           /\ SubSeq(optimization_history', 1, Len(optimization_history))
                  = optimization_history ]_vars

\* C17: once the child process is started, run() eventually completes with
\* the report written, and it is completed only when the child has exited
\* and none of its output is left unread.
C17_EventuallyCompleted ==
    /\ (child = "running") ~> (pc = "Completed" /\ Len(report) = 1)
    /\ [](pc = "Completed" => child = "exited" /\ stdout = <<>>)

\* a line is taken from the output of the child
ReadStep ==
    /\ stdout # <<>>
    /\ stdout' = Tail(stdout)

\* C18: a line is read only when run() stands at the readline with every
\* suggestion of the history handled by the loop body (printed and, for
\* cloudflare, answered and applied); a suggestion is handled before the
\* next one is produced, and no line is read while run() waits for an answer.
C18_SequentialReaction ==
    /\ [](handled <= Len(optimization_history)
             /\ Len(optimization_history) <= handled + 1)
    /\ [](pc = "Suspended" => Len(optimization_history) = handled + 1)
    /\ [][ ReadStep =>
              /\ pc = "Reading"
              /\ handled = Len(optimization_history) ]_vars

C18_Witness ==
    /\ produced = 2
    /\ stdout = <<>>
    /\ line = LineCf
    /\ handled = 2
    /\ pc = "Suspended"

\* C19: learning leaves the built-in classes "500" and "cloudflare" as they
\* were loaded (triggers, remedy and learned flag), so every suggestion of
\* class "500" comes with a call of machine_learn.
C19_BuiltinsUnchanged ==
    /\ [](/\ Len(error_db) >= Len(load_error_patterns)
          /\ SubSeq(error_db, 1, Len(load_error_patterns)) = load_error_patterns)
    /\ [][ (/\ Len(optimization_history') = Len(optimization_history) + 1
            /\ Appended.type = "500") =>
               Len(learn_calls') = Len(learn_calls) + 1 ]_vars

C19_Witness ==
    /\ Len(learn_calls) = 2
    /\ Len(error_db) = 3
    /\ ~error_db[1].learned
====
